---- MODULE Spec2Model ----
(***************************************************************************)
(* Model of the event bus of github.com/erkkah/eventually (events.go).     *)
(*                                                                         *)
(* One dispatcher goroutine owns topicListeners and serves the buffered    *)
(* channel b.requests; every listener has a worker goroutine that reads    *)
(* its unbuffered channel and calls the callback; callers run Once/On,     *)
(* Post and Unsubscribe.  A send on an unbuffered channel is one step      *)
(* shared by the sender and the receiver.                                  *)
(***************************************************************************)
EXTENDS Integers, Sequences, FiniteSets, TLC

\* ------------------------------------------------------------------ bounds
\* calls of Once, On, Post and Unsubscribe in one run, and listeners among them
MaxCalls == 4
MaxListeners == 2

\* capacity of b.requests, as set by WithQueueLength
queueLength == 2

Callers == {"c1", "c2"}

\* ------------------------------------------------------------------ values
\* An interface{} value: its dynamic type and its value.
V(t, v) == [type |-> t, val |-> v]

\* The variadic parameter data of Post: the nil slice of a call without
\* arguments, or a slice of values.
NilData == [nil |-> TRUE, args |-> <<>>]
Data(args) == [nil |-> FALSE, args |-> args]

\* A function type: parameter types, result types, variadic flag.
FuncOf(in, out, variadic) == [in |-> in, out |-> out, variadic |-> variadic]

\* b.eventMap: nil, or a map from topic to a template of instances.
NoEventMap == [set |-> FALSE, map |-> << >>]
HelloEventMap ==
    [set |-> TRUE,
     map |-> [t \in {"hello"} |-> <<V("string", "string"), V("int", 42)>>]]

\* What the callers pass to a bus made by NewBus(): the topic and callback of
\* Once and On, the topic and data of Post.
Topics == {"ping"}
CallbackTypes ==
    { FuncOf(<<"string", "int">>, <<>>, FALSE),
      FuncOf(<<>>, <<>>, FALSE) }
DataSet ==
    { NilData,
      Data(<<V("string", "foo"), V("int", 12)>>) }
Registrations == Topics \X CallbackTypes
Posts == Topics \X DataSet

\* What the callers pass to a bus made by NewBus(WithEventMap(HelloEventMap)).
MapRegistrations ==
    { <<"hello", FuncOf(<<"string", "int">>, <<>>, FALSE)>>,
      <<"hello", FuncOf(<<"string", "int">>, <<"bool">>, FALSE)>>,
      <<"hello", FuncOf(<<"string", "float32">>, <<>>, FALSE)>>,
      <<"ping", FuncOf(<<"string", "int">>, <<>>, FALSE)>> }
MapPosts ==
    { <<"hello", Data(<<V("string", "foo"), V("int", 12)>>)>>,
      <<"hello", Data(<<V("string", "foo"), V("string", "splat")>>)>>,
      <<"ping", Data(<<V("string", "foo"), V("int", 12)>>)>> }

AllTopics == {"hello", "ping"}

NoError == "nil"

\* ------------------------------------------------------------------ state
VARIABLES
    eventMap,        \* b.eventMap
    requests,        \* b.requests: the buffered channel of busRequest
    topicListeners,  \* b.topicListeners: topic -> list of listener ids
    listeners,       \* the Listener values made by registerListener, by id
    closed,          \* closed[l]: l.channel has been closed
    worker,          \* worker[l]: the goroutine started for listener l
    dispatcher,      \* the goroutine started by NewBus
    caller,          \* the goroutines calling the Bus interface
    returned,        \* listener ids that Once/On have returned to callers
    events,          \* history: the events posted so far, by event id
    unsubscribed,    \* history: the listeners passed to Unsubscribe, call by call
    regOrder,        \* history: listeners in the order addListener accepted them
    handed,          \* history: handed[l] = event ids sent on l.channel, in order
    calls,           \* history: calls[l] = callback invocations of l, in order
    broadcasts       \* history: the calls of broadcast, in order

vars == <<eventMap, requests, topicListeners, listeners, closed, worker,
          dispatcher, caller, returned, events, unsubscribed, regOrder,
          handed, calls, broadcasts>>

Ids == 1..Len(listeners)

\* the calls made so far
Calls == Len(listeners) + Len(events) + Len(unsubscribed)

NoEvent == [id |-> 0, topic |-> "", data |-> NilData]

Range(s) == {s[i] : i \in DOMAIN s}

\* ------------------------------------------------------------------ pure code
\* typesOf: reflect.TypeOf of every element.
typesOf(args) == [i \in DOMAIN args |-> args[i].type]

\* callListener: callback.Call(args) panics when the arguments do not fit the
\* parameters; the deferred recover turns the panic into the returned error.
callListener(callback, evnt) ==
    IF typesOf(evnt.args) = callback.in THEN NoError ELSE "Failed to call listener"

\* verifyListener comparing the parameter types alone.
verifyListenerParams(l) ==
    IF ~eventMap.set THEN NoError
    ELSE IF l.topic \in DOMAIN eventMap.map
         THEN IF l.callback.in # typesOf(eventMap.map[l.topic])
              THEN "Argument mismatch"
              ELSE NoError
         ELSE "No such topic"

verifyListener(l) ==
    IF ~eventMap.set THEN NoError
    ELSE IF l.topic \in DOMAIN eventMap.map
         THEN IF l.callback # FuncOf(typesOf(eventMap.map[l.topic]), <<>>, FALSE)
              THEN "Argument mismatch"
              ELSE NoError
         ELSE "No such topic"

\* addListener putting the listener at the front of the list.
addListenerFront(id) ==
    LET err == verifyListener(listeners[id])
        t == listeners[id].topic
    IN  IF err # NoError
        THEN [err |-> err, table |-> topicListeners]
        ELSE [err |-> NoError,
              table |-> [topicListeners EXCEPT ![t] = <<id>> \o @]]

\* addListener not looking at the error of verifyListener.
addListenerUnchecked(id) ==
    [err |-> verifyListener(listeners[id]),
     table |-> [topicListeners EXCEPT ![listeners[id].topic] = Append(@, id)]]

\* addListener: the error and the new table.
addListener(id) ==
    LET err == verifyListener(listeners[id])
        t == listeners[id].topic
    IN  IF err # NoError
        THEN [err |-> err, table |-> topicListeners]
        ELSE [err |-> NoError,
              table |-> [topicListeners EXCEPT ![t] = Append(@, id)]]

\* removeListener without effect.
removeNothing(id) ==
    [keepList |-> topicListeners[listeners[id].topic], closing |-> {},
     panic |-> FALSE]

\* removeListener taking the listeners off the list and leaving their
\* channels open.
removeListenerOpen(id) ==
    [keepList |-> <<>>, closing |-> {}, panic |-> FALSE]

\* The test of the loop of removeListener.  The loop variable is named l and
\* shadows the parameter, so both operands are the callback of the element.
removeTest(element, param) ==
    listeners[element].callback = listeners[element].callback

\* The loop of removeListener over the rest of the list: the list kept, the
\* channels closed, and whether a close hit a closed channel.
RECURSIVE removeLoop(_, _, _)
removeLoop(rest, param, acc) ==
    IF rest = <<>> THEN acc
    ELSE LET e == Head(rest)
         IN  IF removeTest(e, param)
             THEN removeLoop(Tail(rest), param,
                      [acc EXCEPT !.closing = @ \cup {e},
                                  !.panic = @ \/ closed[e] \/ e \in acc.closing])
             ELSE removeLoop(Tail(rest), param,
                      [acc EXCEPT !.keepList = Append(@, e)])

removeListener(id) ==
    removeLoop(topicListeners[listeners[id].topic], id,
               [keepList |-> <<>>, closing |-> {}, panic |-> FALSE])

\* verifyEvent looking up the topic alone.
verifyEventTopic(evnt) ==
    IF ~eventMap.set THEN NoError
    ELSE IF evnt.topic \in DOMAIN eventMap.map THEN NoError ELSE "No such topic"

verifyEvent(evnt) ==
    IF ~eventMap.set THEN NoError
    ELSE IF evnt.topic \in DOMAIN eventMap.map
         THEN IF typesOf(eventMap.map[evnt.topic]) # typesOf(evnt.data.args)
              THEN "Message data mismatch"
              ELSE NoError
         ELSE "No such topic"

\* A worker calling the callback a second time.
workerReceiveTwice(id, evnt) ==
    IF ~evnt.data.nil
    THEN LET c == [event |-> evnt.id,
                   err |-> callListener(listeners[id].callback, evnt.data)]
         IN  [pc |-> "call", evnt |-> evnt.id, called |-> <<c, c>>]
    ELSE [pc |-> "recv", evnt |-> 0, called |-> <<>>]

\* The body of the worker's loop after a receive of evnt with alive = TRUE:
\* the callback is called unless evnt is nil.
workerReceive(id, evnt) ==
    IF ~evnt.data.nil
    THEN [pc |-> "call", evnt |-> evnt.id,
          called |-> <<[event |-> evnt.id,
                        err |-> callListener(listeners[id].callback, evnt.data)]>>]
    ELSE [pc |-> "recv", evnt |-> 0, called |-> <<>>]

\* broadcast keeping every listener, once or not.
broadcastKeepAll(id, keepList) ==
    [keepList |-> Append(keepList, id), close |-> FALSE]

\* broadcast closing the channel of a once-listener and keeping it in the list.
broadcastCloseKeep(id, keepList) ==
    [keepList |-> Append(keepList, id), close |-> listeners[id].once]

\* The body of the loop of broadcast after the send: keep or close.
broadcastKeep(id, keepList) ==
    IF ~listeners[id].once
    THEN [keepList |-> Append(keepList, id), close |-> FALSE]
    ELSE [keepList |-> keepList, close |-> TRUE]

\* ------------------------------------------------------------------ Init
Idle == [pc |-> "idle", request |-> "none", event |-> NoEvent, errors |-> "none",
         list |-> <<>>, i |-> 0, keepList |-> <<>>, err |-> NoError]

Ready == [pc |-> "ready", op |-> "none", arg |-> 0, err |-> NoError]

InitBus(map) ==
    /\ eventMap = map
    /\ requests = <<>>
    /\ topicListeners = [t \in AllTopics |-> <<>>]
    /\ listeners = <<>>
    /\ closed = <<>>
    /\ worker = <<>>
    /\ dispatcher = Idle
    /\ caller = [c \in Callers |-> Ready]
    /\ returned = {}
    /\ events = <<>>
    /\ unsubscribed = <<>>
    /\ regOrder = <<>>
    /\ handed = <<>>
    /\ calls = <<>>
    /\ broadcasts = <<>>

\* ------------------------------------------------------------------ callers
\* Once (callOnce) and On: make the listener, start its worker, send the
\* request and wait for the reply.  The worker waits in its receive and
\* nothing can reach it before the request is served, so its start and the
\* send are one step; the send blocks while b.requests is full.
registerListener(c, topic, callback, callOnce) ==
    /\ caller[c].pc = "ready"
    /\ Calls < MaxCalls
    /\ Len(listeners) < MaxListeners
    /\ Len(requests) < queueLength
    /\ LET id == Len(listeners) + 1
       IN  /\ listeners' = Append(listeners,
                  [topic |-> topic, once |-> callOnce, callback |-> callback])
           /\ closed' = Append(closed, FALSE)
           /\ worker' = Append(worker, [pc |-> "recv", evnt |-> 0])
           /\ handed' = Append(handed, <<>>)
           /\ calls' = Append(calls, <<>>)
           /\ requests' = Append(requests,
                  [request |-> "addListenerReq", listener |-> id,
                   event |-> NoEvent, errors |-> c])
           /\ caller' = [caller EXCEPT ![c] =
                  [pc |-> "wait", op |-> "register", arg |-> id, err |-> NoError]]
    /\ UNCHANGED <<eventMap, topicListeners, dispatcher, returned, events,
                   unsubscribed, regOrder, broadcasts>>

Post(c, topic, data) ==
    /\ caller[c].pc = "ready"
    /\ Calls < MaxCalls
    /\ Len(requests) < queueLength
    /\ LET id == Len(events) + 1
       IN  /\ events' = Append(events,
                  [topic |-> topic, data |-> data, regs |-> returned,
                   after |-> Range(unsubscribed), from |-> 0])
           /\ requests' = Append(requests,
                  [request |-> "sendEventReq", listener |-> 0,
                   event |-> [id |-> id, topic |-> topic, data |-> data],
                   errors |-> c])
           /\ caller' = [caller EXCEPT ![c] =
                  [pc |-> "wait", op |-> "post", arg |-> id, err |-> NoError]]
    /\ UNCHANGED <<eventMap, topicListeners, listeners, closed, worker,
                   dispatcher, returned, unsubscribed, regOrder, handed, calls,
                   broadcasts>>

\* Unsubscribe sends the request and returns; the topic argument is not used.
Unsubscribe(c, id) ==
    /\ caller[c].pc = "ready"
    /\ id \in returned
    /\ Calls < MaxCalls
    /\ Len(requests) < queueLength
    /\ requests' = Append(requests,
           [request |-> "removeListenerReq", listener |-> id,
            event |-> NoEvent, errors |-> "none"])
    /\ unsubscribed' = Append(unsubscribed, id)
    /\ UNCHANGED <<eventMap, topicListeners, listeners, closed, worker,
                   dispatcher, caller, returned, events, regOrder, handed,
                   calls, broadcasts>>

\* ------------------------------------------------------------------ dispatcher
Panicked == [Idle EXCEPT !.pc = "panic"]

\* The dispatcher going back to its receive without sending the reply.
ReplyingNever(r, err) == [Idle EXCEPT !.err = err]

Replying(r, err) ==
    [Idle EXCEPT !.pc = "reply", !.request = r.request, !.event = r.event,
                 !.errors = r.errors, !.err = err]

\* case addListenerReq: addListener runs, the reply is left to send.
DispatchAdd ==
    /\ dispatcher.pc = "idle"
    /\ requests # <<>>
    /\ Head(requests).request = "addListenerReq"
    /\ LET r == Head(requests)
           res == addListener(r.listener)
       IN  /\ topicListeners' = res.table
           /\ regOrder' = IF res.err = NoError
                          THEN Append(regOrder, r.listener) ELSE regOrder
           /\ dispatcher' = Replying(r, res.err)
    /\ requests' = Tail(requests)
    /\ UNCHANGED <<eventMap, listeners, closed, worker, caller, returned,
                   events, unsubscribed, handed, calls, broadcasts>>

\* case removeListenerReq: removeListener runs, there is no reply.
DispatchRemove ==
    /\ dispatcher.pc = "idle"
    /\ requests # <<>>
    /\ Head(requests).request = "removeListenerReq"
    /\ LET r == Head(requests)
           t == listeners[r.listener].topic
           res == removeListener(r.listener)
       IN  /\ closed' = [id \in DOMAIN closed |-> closed[id] \/ id \in res.closing]
           /\ IF res.panic
              THEN /\ dispatcher' = Panicked
                   /\ UNCHANGED topicListeners
              ELSE /\ dispatcher' = Idle
                   /\ topicListeners' = [topicListeners EXCEPT ![t] = res.keepList]
    /\ requests' = Tail(requests)
    /\ UNCHANGED <<eventMap, listeners, worker, caller, returned, events,
                   unsubscribed, regOrder, handed, calls, broadcasts>>

\* The dispatcher taking the newest request of b.requests for a broadcast.
DispatchSendLast ==
    /\ dispatcher.pc = "idle"
    /\ requests # <<>>
    /\ requests[Len(requests)].request = "sendEventReq"
    /\ LET r == requests[Len(requests)]
           err == verifyEvent(r.event)
           list == topicListeners[r.event.topic]
       IN  /\ broadcasts' = Append(broadcasts,
                  [event |-> r.event.id, err |-> err, list |-> list])
           /\ dispatcher' =
                  IF err # NoError \/ list = <<>>
                  THEN Replying(r, err)
                  ELSE [Replying(r, err) EXCEPT !.pc = "broadcast",
                                                !.list = list, !.i = 1]
    /\ requests' = SubSeq(requests, 1, Len(requests) - 1)
    /\ UNCHANGED <<eventMap, topicListeners, listeners, closed, worker, caller,
                   returned, events, unsubscribed, regOrder, handed, calls>>

\* case sendEventReq: broadcast runs up to its first send on a listener's
\* channel, or to its end when there is none.
DispatchSend ==
    /\ dispatcher.pc = "idle"
    /\ requests # <<>>
    /\ Head(requests).request = "sendEventReq"
    /\ LET r == Head(requests)
           err == verifyEvent(r.event)
           list == topicListeners[r.event.topic]
       IN  /\ broadcasts' = Append(broadcasts,
                  [event |-> r.event.id, err |-> err, list |-> list])
           /\ dispatcher' =
                  IF err # NoError \/ list = <<>>
                  THEN Replying(r, err)
                  ELSE [Replying(r, err) EXCEPT !.pc = "broadcast",
                                                !.list = list, !.i = 1]
    /\ requests' = Tail(requests)
    /\ UNCHANGED <<eventMap, topicListeners, listeners, closed, worker, caller,
                   returned, events, unsubscribed, regOrder, handed, calls>>

\* A channel with a buffer: the send goes through while the worker is in
\* the callback.
receivingBuffered(id) == worker[id].pc \in {"recv", "call"}

\* ch := make(chan []interface{}): the channel has no buffer, a send on it
\* goes through when the worker is at its receive.
receiving(id) == worker[id].pc = "recv"

\* l.channel <- evnt.data: the dispatcher sends and the worker of the
\* listener, waiting in its receive, takes the event and starts the callback;
\* the dispatcher then keeps or closes the listener and goes on to the next
\* send, or stores keepList and leaves the loop.
Handoff ==
    /\ dispatcher.pc = "broadcast"
    /\ LET id == dispatcher.list[dispatcher.i]
           w == workerReceive(id, dispatcher.event)
           k == broadcastKeep(id, dispatcher.keepList)
           last == dispatcher.i = Len(dispatcher.list)
       IN  IF closed[id]
           THEN /\ dispatcher' = Panicked
                /\ UNCHANGED <<worker, handed, calls, closed, topicListeners>>
           ELSE /\ receiving(id)
                /\ worker' = [worker EXCEPT ![id] = [pc |-> w.pc, evnt |-> w.evnt]]
                /\ handed' = [handed EXCEPT ![id] = Append(@, dispatcher.event.id)]
                /\ calls' = [calls EXCEPT ![id] = @ \o w.called]
                /\ closed' = [closed EXCEPT ![id] = k.close]
                /\ topicListeners' =
                       IF last
                       THEN [topicListeners EXCEPT
                                ![dispatcher.event.topic] = k.keepList]
                       ELSE topicListeners
                /\ dispatcher' =
                       IF last
                       THEN [dispatcher EXCEPT !.pc = "reply", !.list = <<>>,
                                               !.i = 0, !.keepList = <<>>]
                       ELSE [dispatcher EXCEPT !.i = @ + 1,
                                               !.keepList = k.keepList]
    /\ UNCHANGED <<eventMap, requests, listeners, caller, returned, events,
                   unsubscribed, regOrder, broadcasts>>

\* request.errors <- err, received by the caller waiting in <-errors, which
\* then returns from Once, On or Post.
Reply ==
    /\ dispatcher.pc = "reply"
    /\ dispatcher.errors \in Callers
    /\ LET c == dispatcher.errors
       IN  /\ caller[c].pc = "wait"
           /\ caller' = [caller EXCEPT ![c] =
                  [pc |-> "ready", op |-> caller[c].op, arg |-> caller[c].arg,
                   err |-> dispatcher.err]]
           /\ returned' = IF caller[c].op = "register"
                          THEN returned \cup {caller[c].arg} ELSE returned
    /\ dispatcher' = Idle
    /\ UNCHANGED <<eventMap, requests, topicListeners, listeners, closed, worker,
                   events, unsubscribed, regOrder, handed, calls, broadcasts>>

\* ------------------------------------------------------------------ workers
\* callListener returns: the worker is back at its receive.
CallbackReturn(id) ==
    /\ worker[id].pc = "call"
    /\ worker' = [worker EXCEPT ![id] = [pc |-> "recv", evnt |-> 0]]
    /\ UNCHANGED <<eventMap, requests, topicListeners, listeners, closed,
                   dispatcher, caller, returned, events, unsubscribed, regOrder,
                   handed, calls, broadcasts>>

\* The receive on the closed channel yields nil, false: no call, break.
WorkerExit(id) ==
    /\ worker[id].pc = "recv"
    /\ closed[id]
    /\ worker' = [worker EXCEPT ![id] = [pc |-> "exited", evnt |-> 0]]
    /\ UNCHANGED <<eventMap, requests, topicListeners, listeners, closed,
                   dispatcher, caller, returned, events, unsubscribed, regOrder,
                   handed, calls, broadcasts>>

\* The errors channel of a Post made by the callback of a listener.
errorsOf(id) == <<"w1", "w2", "w3", "w4">>[id]

\* A callback that starts Post in a goroutine of its own and goes on.
inPostAsync(id) == worker[id]

\* The worker of a listener whose callback is in Post, waiting at <-errors.
inPost(id) == [pc |-> "post", evnt |-> worker[id].evnt]

\* The callback of the listener calls Post on the listener's topic: the
\* request is sent and the callback waits for the reply.
CallbackPost(id, data) ==
    /\ worker[id].pc = "call"
    /\ Calls < MaxCalls
    /\ Len(requests) < queueLength
    /\ LET e == Len(events) + 1
           topic == listeners[id].topic
       IN  /\ events' = Append(events,
                  [topic |-> topic, data |-> data, regs |-> returned,
                   after |-> Range(unsubscribed), from |-> id])
           /\ requests' = Append(requests,
                  [request |-> "sendEventReq", listener |-> 0,
                   event |-> [id |-> e, topic |-> topic, data |-> data],
                   errors |-> errorsOf(id)])
    /\ worker' = [worker EXCEPT ![id] = inPost(id)]
    /\ UNCHANGED <<eventMap, topicListeners, listeners, closed, dispatcher,
                   caller, returned, unsubscribed, regOrder, handed, calls,
                   broadcasts>>

\* request.errors <- err, received by the callback waiting in Post, which
\* goes on.
ReplyWorker ==
    /\ dispatcher.pc = "reply"
    /\ \E id \in Ids :
          /\ dispatcher.errors = errorsOf(id)
          /\ worker[id].pc = "post"
          /\ worker' = [worker EXCEPT ![id] =
                 [pc |-> "call", evnt |-> worker[id].evnt]]
    /\ dispatcher' = Idle
    /\ UNCHANGED <<eventMap, requests, topicListeners, listeners, closed,
                   caller, returned, events, unsubscribed, regOrder, handed,
                   calls, broadcasts>>

\* ------------------------------------------------------------------ Next
Register(R) ==
    \E c \in Callers, r \in R, o \in BOOLEAN : registerListener(c, r[1], r[2], o)

DoPost(P) == \E c \in Callers, p \in P : Post(c, p[1], p[2])

DoUnsubscribe == \E c \in Callers, id \in returned : Unsubscribe(c, id)

Return == \E id \in Ids : CallbackReturn(id)

Exit == \E id \in Ids : WorkerExit(id)

Bus ==
    \/ DoUnsubscribe
    \/ DispatchAdd
    \/ DispatchRemove
    \/ DispatchSend
    \/ Handoff
    \/ Reply
    \/ Return
    \/ Exit

\* A bus without event map.
Init == InitBus(NoEventMap)

Next ==
    \/ Register(Registrations)
    \/ DoPost(Posts)
    \/ Bus

Spec == Init /\ [][Next]_vars

\* A bus with an event map.
InitMap == InitBus(HelloEventMap)

NextMap ==
    \/ Register(MapRegistrations)
    \/ DoPost(MapPosts)
    \/ Bus

SpecMap == InitMap /\ [][NextMap]_vars

\* ------------------------------------------------------------------ properties
InTable(id) == \E t \in AllTopics : id \in Range(topicListeners[t])

\* the listener is in the list a running broadcast is iterating over
InBroadcast(id) == dispatcher.pc = "broadcast" /\ id \in Range(dispatcher.list)

\* the call of broadcast for event e has left its loop
Finished(e) == ~(dispatcher.pc = "broadcast" /\ dispatcher.event.id = e)

Count(s, x) == Cardinality({i \in DOMAIN s : s[i] = x})

Called(id) == [i \in DOMAIN calls[id] |-> calls[id][i].event]

Without(s, x) == SelectSeq(s, LAMBDA y : y # x)

\* the dispatcher takes a removeListenerReq off the queue
RemoveStep ==
    /\ dispatcher.pc = "idle"
    /\ requests # <<>>
    /\ Head(requests).request = "removeListenerReq"
    /\ requests' = Tail(requests)

\* C1 (as stated): a once-listener's callback is invoked at most once, and the
\* listener is out of topicListeners in every state after its event was
\* handed to its worker.
C1_Original ==
    \A id \in Ids :
        listeners[id].once =>
            /\ Len(calls[id]) <= 1
            /\ handed[id] # <<>> => ~InTable(id)

\* C1 (amended): a once-listener is handed at most one event and its callback
\* is invoked at most once; it is out of topicListeners as soon as the
\* broadcast that handed it the event has left its loop, which is before the
\* reply to that Post and before any later request.
C1_OnceAtMostOnce ==
    \A id \in Ids :
        listeners[id].once =>
            /\ Len(handed[id]) <= 1
            /\ Len(calls[id]) <= 1
            /\ (handed[id] # <<>> /\ ~InBroadcast(id)) => ~InTable(id)

\* a once-listener was called and a second Post to its topic has been served
C1_Witness ==
    \E id \in Ids :
        /\ listeners[id].once
        /\ Len(calls[id]) = 1
        /\ dispatcher.pc = "idle"
        /\ \E i, j \in DOMAIN broadcasts :
              /\ i < j
              /\ id \in Range(broadcasts[i].list)
              /\ events[broadcasts[j].event].topic = listeners[id].topic
              /\ broadcasts[j].err = NoError

\* C2: removeListener for a listener s of its topic's list leaves that list
\* without s, the others in order, and closes the channel of s alone.
C2_RemoveExactlyOne ==
    [][ \A s \in Ids :
          (RemoveStep /\ Head(requests).listener = s /\ InTable(s)) =>
             /\ topicListeners' =
                   [topicListeners EXCEPT ![listeners[s].topic] = Without(@, s)]
             /\ closed' = [closed EXCEPT ![s] = TRUE] ]_vars

\* C3: removeListener for a listener that is in no list changes neither
\* topicListeners nor any channel.
C3_RemoveAbsentNoop ==
    [][ \A s \in Ids :
          (RemoveStep /\ Head(requests).listener = s /\ ~InTable(s)) =>
             UNCHANGED <<topicListeners, closed>> ]_vars

\* C4: once broadcast has served an accepted Post, the callback of every
\* listener that was in the topic's list has been invoked exactly once with
\* the event, whatever its data, the empty argument list included.
C4_EveryListenerCalledOnce ==
    \A i \in DOMAIN broadcasts :
        (broadcasts[i].err = NoError /\ Finished(broadcasts[i].event)) =>
            \A id \in Range(broadcasts[i].list) :
                Count(Called(id), broadcasts[i].event) = 1

\* C5: an event posted after Unsubscribe(s) has returned is never handed to s;
\* and an event with arguments, posted to the topic of an On listener after
\* its registration returned and before any Unsubscribe, has reached its
\* callback when broadcast has served it.
C5_NoDeliveryAfterUnsubscribe ==
    \A id \in Ids : \A e \in DOMAIN events :
        /\ id \in events[e].after => Count(handed[id], e) = 0
        /\ ( /\ id \in events[e].regs
             /\ id \in Range(regOrder)
             /\ ~listeners[id].once
             /\ events[e].topic = listeners[id].topic
             /\ events[e].after = {}
             /\ ~events[e].data.nil
             /\ \E i \in DOMAIN broadcasts :
                   broadcasts[i].event = e /\ broadcasts[i].err = NoError
             /\ Finished(e) )
           => Count(Called(id), e) = 1

\* On; Post a; Unsubscribe; Post b, all served: a was called, b was not
C5_Witness ==
    \E id \in Ids : \E a, b \in DOMAIN events :
        /\ ~listeners[id].once
        /\ events[a].topic = listeners[id].topic
        /\ events[b].topic = listeners[id].topic
        /\ id \notin events[a].after
        /\ id \in events[b].after
        /\ Count(Called(id), a) = 1
        /\ \E i \in DOMAIN broadcasts : broadcasts[i].event = b
        /\ dispatcher.pc = "idle"
        /\ requests = <<>>

\* the dispatcher takes an addListenerReq off the queue
AddStep ==
    /\ dispatcher.pc = "idle"
    /\ requests # <<>>
    /\ Head(requests).request = "addListenerReq"
    /\ requests' = Tail(requests)

\* the dispatcher takes a sendEventReq off the queue
SendStep ==
    /\ dispatcher.pc = "idle"
    /\ requests # <<>>
    /\ Head(requests).request = "sendEventReq"
    /\ requests' = Tail(requests)

Declared(t) == eventMap.set /\ t \in DOMAIN eventMap.map

DeclaredTypes(t) == [i \in DOMAIN eventMap.map[t] |-> eventMap.map[t][i].type]

\* what addListener does to the table when it accepts s, and when it does not
Accepted(s) ==
    topicListeners' =
        [topicListeners EXCEPT ![listeners[s].topic] = Append(@, s)]

\* C6 (as stated): with an event map, registration fails exactly when the
\* topic is not declared or the callback's parameter list differs from the
\* declared types; then the table is unchanged, else the listener is appended.
C6_Original ==
    [][ \A s \in Ids :
          (AddStep /\ Head(requests).listener = s) =>
             LET t == listeners[s].topic
                 bad == \/ ~Declared(t)
                        \/ listeners[s].callback.in # DeclaredTypes(t)
             IN  /\ (dispatcher'.err # NoError) <=> bad
                 /\ bad => UNCHANGED topicListeners
                 /\ ~bad => Accepted(s) ]_vars

\* C6 (amended): with an event map, registration fails exactly when the topic
\* is not declared or the callback's function type is not the type with the
\* declared parameter types, no result and no variadic parameter; then the
\* table is unchanged, else the listener is appended.
C6_RegistrationChecked ==
    [][ \A s \in Ids :
          (AddStep /\ Head(requests).listener = s) =>
             LET t == listeners[s].topic
                 cb == listeners[s].callback
                 bad == \/ ~Declared(t)
                        \/ cb.in # DeclaredTypes(t)
                        \/ cb.out # <<>>
                        \/ cb.variadic
             IN  /\ (dispatcher'.err # NoError) <=> bad
                 /\ bad => UNCHANGED topicListeners
                 /\ ~bad => Accepted(s) ]_vars

\* a callback with the declared parameters and a result has been refused
\* after another registration was accepted
C6_Witness ==
    /\ dispatcher.pc = "reply"
    /\ dispatcher.request = "addListenerReq"
    /\ dispatcher.err = "Argument mismatch"
    /\ regOrder # <<>>
    /\ LET s == caller[dispatcher.errors].arg
       IN  /\ listeners[s].callback.in = DeclaredTypes(listeners[s].topic)
           /\ listeners[s].callback.out # <<>>
           /\ ~InTable(s)

BadEvent(topic, data) ==
    \/ ~Declared(topic)
    \/ DeclaredTypes(topic) # [i \in DOMAIN data.args |-> data.args[i].type]

\* C7: with an event map, a Post to an undeclared topic or with other argument
\* types gets an error, its event is handed to no worker, and the step that
\* serves it changes neither the table nor any channel or worker, so a
\* once-listener of the topic stays registered for the next Post.
C7_BadPostRejected ==
    /\ [](\A i \in DOMAIN broadcasts :
            LET e == broadcasts[i].event
            IN  BadEvent(events[e].topic, events[e].data) =>
                   /\ broadcasts[i].err # NoError
                   /\ \A id \in Ids : Count(handed[id], e) = 0
                   /\ \A c \in Callers :
                         (caller[c] = [pc |-> "ready", op |-> "post",
                                       arg |-> e, err |-> caller[c].err])
                            => caller[c].err # NoError)
    /\ [][ (SendStep /\ BadEvent(Head(requests).event.topic,
                                 Head(requests).event.data)) =>
              /\ dispatcher'.pc = "reply"
              /\ dispatcher'.err # NoError
              /\ UNCHANGED <<topicListeners, closed, worker, handed, calls>> ]_vars

\* a once-listener was in the list when a bad Post was refused and was handed
\* a later, accepted Post
C7_Witness ==
    \E id \in Ids : \E i, j \in DOMAIN broadcasts :
        /\ i < j
        /\ listeners[id].once
        /\ id \in Range(broadcasts[i].list)
        /\ broadcasts[i].err # NoError
        /\ broadcasts[j].err = NoError
        /\ Count(handed[id], broadcasts[j].event) = 1
        /\ ~InTable(id)

\* the position of event e in the order in which broadcast served the events
Pos(e) == CHOOSE i \in DOMAIN broadcasts : broadcasts[i].event = e

Failed(id, e) ==
    \E k \in DOMAIN calls[id] : calls[id][k].event = e /\ calls[id][k].err # NoError

\* C8: when a callback fails on an event, the Post of that event returns no
\* error, the other listeners of the topic are handed the event, the worker
\* of the failing listener stays alive, and for an On listener the callback
\* is invoked for every later Post served while it is registered.
C8_FailureContained ==
    \A id \in Ids : \A i \in DOMAIN broadcasts :
        Failed(id, broadcasts[i].event) =>
            /\ broadcasts[i].err = NoError
            /\ \A c \in Callers :
                  (caller[c] = [pc |-> "ready", op |-> "post",
                                arg |-> broadcasts[i].event, err |-> caller[c].err])
                     => caller[c].err = NoError
            /\ Finished(broadcasts[i].event) =>
                  \A o \in Range(broadcasts[i].list) :
                      Count(handed[o], broadcasts[i].event) = 1
            /\ worker[id].pc = "exited" => closed[id]
            /\ \A j \in DOMAIN broadcasts :
                  ( /\ i < j
                    /\ ~listeners[id].once
                    /\ id \in Range(broadcasts[j].list)
                    /\ broadcasts[j].err = NoError
                    /\ Finished(broadcasts[j].event) )
                  => Count(Called(id), broadcasts[j].event) = 1

\* The part of C8 that does not depend on the event's data: the failure leaves
\* the Post without error, the others with the event and the worker alive,
\* and every later event with arguments reaches the callback.
FailureContainedWithArguments ==
    \A id \in Ids : \A i \in DOMAIN broadcasts :
        Failed(id, broadcasts[i].event) =>
            /\ broadcasts[i].err = NoError
            /\ Finished(broadcasts[i].event) =>
                  \A o \in Range(broadcasts[i].list) :
                      Count(handed[o], broadcasts[i].event) = 1
            /\ worker[id].pc = "exited" => closed[id]
            /\ \A j \in DOMAIN broadcasts :
                  ( /\ i < j
                    /\ id \in Range(broadcasts[j].list)
                    /\ broadcasts[j].err = NoError
                    /\ ~events[broadcasts[j].event].data.nil
                    /\ Finished(broadcasts[j].event) )
                  => Count(Called(id), broadcasts[j].event) = 1

\* C9: a listener is handed events in the order in which broadcast served
\* them, none twice; its callback is invoked for them in that order, none
\* twice; the invocation in progress is the last one started.
C9_PerListenerOrder ==
    \A id \in Ids :
        /\ \A k, m \in DOMAIN handed[id] :
              k < m => Pos(handed[id][k]) < Pos(handed[id][m])
        /\ Called(id) = SelectSeq(handed[id], LAMBDA e : ~events[e].data.nil)
        /\ worker[id].pc = "call" =>
              /\ calls[id] # <<>>
              /\ worker[id].evnt = calls[id][Len(calls[id])].event

\* a callback has been invoked for two events
C9_Witness == \E id \in Ids : Len(calls[id]) >= 2

Index(s, x) == CHOOSE i \in DOMAIN s : s[i] = x

\* s holds elements of t, none twice, in the order they have in t
IsSubSeq(s, t) ==
    /\ Range(s) \subseteq Range(t)
    /\ \A i, j \in DOMAIN s : i < j => Index(t, s[i]) < Index(t, s[j])

\* C10: every topic's list holds listeners of that topic in the order in which
\* addListener accepted them, and so does the list a broadcast iterates over;
\* during a broadcast exactly the listeners before the current one have been
\* handed the event.
C10_RegistrationOrder ==
    /\ \A t \in AllTopics :
          /\ IsSubSeq(topicListeners[t], regOrder)
          /\ \A id \in Range(topicListeners[t]) : listeners[id].topic = t
    /\ \A i \in DOMAIN broadcasts : IsSubSeq(broadcasts[i].list, regOrder)
    /\ dispatcher.pc = "broadcast" =>
          /\ dispatcher.list = broadcasts[Len(broadcasts)].list
          /\ dispatcher.event.id = broadcasts[Len(broadcasts)].event
          /\ \A j \in DOMAIN dispatcher.list :
                (j < dispatcher.i) <=>
                   Count(handed[dispatcher.list[j]], dispatcher.event.id) = 1
    /\ \A i \in DOMAIN broadcasts :
          (broadcasts[i].err = NoError /\ Finished(broadcasts[i].event)) =>
              \A id \in Range(broadcasts[i].list) :
                  Count(handed[id], broadcasts[i].event) = 1

\* a broadcast over two listeners has handed the event to the first
C10_Witness ==
    /\ dispatcher.pc = "broadcast"
    /\ dispatcher.i = 2
    /\ worker[dispatcher.list[1]].pc = "call"
    /\ Index(regOrder, dispatcher.list[1]) < Index(regOrder, dispatcher.list[2])

\* ------------------------------------------------------------------ two topics
\* What the callers pass to a bus made by NewBus() when they use two topics.
TopicRegistrations ==
    {"hello", "ping"} \X {FuncOf(<<"string", "int">>, <<>>, FALSE)}
TopicPosts ==
    {"hello", "ping"} \X {Data(<<V("string", "foo"), V("int", 12)>>)}

NextTopics ==
    \/ Register(TopicRegistrations)
    \/ DoPost(TopicPosts)
    \/ Bus

SpecTopics == Init /\ [][NextTopics]_vars

\* the listener was accepted, was never passed to Unsubscribe and, if it is a
\* once-listener, has not been handed its event
Subscribed(id) ==
    /\ id \in Range(regOrder)
    /\ id \notin Range(unsubscribed)
    /\ ~(listeners[id].once /\ handed[id] # <<>>)

\* C11: every accepted registration is in the table exactly once, in the list
\* of its topic, until its own Unsubscribe or its once-delivery (none lost,
\* none duplicated).
C11_NoneLostNoneDuplicated ==
    \A id \in Ids :
        /\ \A t \in AllTopics : Count(topicListeners[t], id) <= 1
        /\ Subscribed(id) =>
              \A t \in AllTopics :
                  Count(topicListeners[t], id) =
                      IF t = listeners[id].topic THEN 1 ELSE 0

\* The parts of C11 that do not depend on removeListener's test: only a step
\* of the dispatcher changes the table, a step that serves a request for one
\* topic changes the list of no other topic, and no listener is in the table
\* twice.
TableOwnedByDispatcher ==
    /\ [](\A id \in Ids :
            Cardinality({t \in AllTopics : id \in Range(topicListeners[t])}) <= 1
            /\ \A t \in AllTopics : Count(topicListeners[t], id) <= 1)
    /\ [][ topicListeners' # topicListeners =>
             /\ dispatcher.pc \in {"idle", "broadcast"}
             /\ \/ dispatcher' # dispatcher
                \/ requests' = Tail(requests)
             /\ caller' = caller
             /\ LET t == IF dispatcher.pc = "broadcast"
                         THEN dispatcher.event.topic
                         ELSE IF Head(requests).request = "sendEventReq"
                              THEN Head(requests).event.topic
                              ELSE listeners[Head(requests).listener].topic
                IN  \A o \in AllTopics \ {t} :
                        topicListeners'[o] = topicListeners[o] ]_vars

\* ------------------------------------------------------------------ C12
\* every broadcast that ran has handed its event to its whole list and the
\* once-listeners it served are out of the table
BroadcastsDone ==
    \A i \in DOMAIN broadcasts :
        broadcasts[i].err = NoError =>
            \A id \in Range(broadcasts[i].list) :
                /\ Count(handed[id], broadcasts[i].event) = 1
                /\ listeners[id].once => ~InTable(id) /\ closed[id]

\* C12: b.requests changes only by a caller's send at its tail or by the idle
\* dispatcher's receive at its head, and the dispatcher then works on that
\* very request; when the dispatcher is idle every request it took is
\* finished (handoffs done, once-listeners pruned, reply received); events
\* and registrations are served in the order of their sends.  Unsubscribe
\* requests go through the same queue.
C12_OneAtATimeFifo ==
    /\ [](/\ dispatcher.pc = "idle" =>
                /\ BroadcastsDone
                /\ \A c \in Callers :
                      caller[c].pc = "wait" =>
                          \E k \in DOMAIN requests : requests[k].errors = c
          /\ \A i, j \in DOMAIN broadcasts :
                i < j => broadcasts[i].event < broadcasts[j].event
          /\ \A i, j \in DOMAIN regOrder : i < j => regOrder[i] < regOrder[j])
    /\ [][ requests' # requests =>
             \/ /\ Len(requests') = Len(requests) + 1
                /\ SubSeq(requests', 1, Len(requests)) = requests
                /\ dispatcher' = dispatcher
             \/ /\ requests # <<>>
                /\ requests' = Tail(requests)
                /\ dispatcher.pc = "idle"
                /\ Head(requests).request # "removeListenerReq" =>
                      /\ dispatcher'.pc \in {"reply", "broadcast"}
                      /\ dispatcher'.request = Head(requests).request
                      /\ dispatcher'.event = Head(requests).event
                      /\ dispatcher'.errors = Head(requests).errors ]_vars

\* an Unsubscribe and another request wait in the queue while the dispatcher
\* is in the middle of a broadcast
C12_Witness ==
    /\ dispatcher.pc = "broadcast"
    /\ Len(requests) = 2
    /\ \E k \in DOMAIN requests : requests[k].request = "removeListenerReq"
    /\ \E k \in DOMAIN requests : requests[k].request # "removeListenerReq"

\* ------------------------------------------------------------------ C13
\* C13: with an event map, every listener in the table is on a declared topic
\* and its callback has the type of a function of the declared argument types;
\* every event handed to a worker has the declared argument types; and no
\* callback invocation fails.
C13_CheckedBusTyped ==
    /\ \A t \in AllTopics : \A id \in Range(topicListeners[t]) :
          /\ listeners[id].topic = t
          /\ Declared(t)
          /\ listeners[id].callback = FuncOf(DeclaredTypes(t), <<>>, FALSE)
    /\ \A id \in Ids : \A k \in DOMAIN handed[id] :
          LET e == events[handed[id][k]]
          IN  /\ Declared(e.topic)
              /\ e.topic = listeners[id].topic
              /\ [i \in DOMAIN e.data.args |-> e.data.args[i].type]
                    = DeclaredTypes(e.topic)
    /\ \A id \in Ids : \A k \in DOMAIN calls[id] : calls[id][k].err = NoError

\* a callback was invoked on a bus with an event map after a registration
\* and a Post were refused
C13_Witness ==
    /\ eventMap.set
    /\ \E id \in Ids : calls[id] # <<>>
    /\ \E id \in Ids : id \in returned /\ id \notin Range(regOrder)
    /\ \E i \in DOMAIN broadcasts : broadcasts[i].err # NoError

\* ------------------------------------------------------------------ C14
\* C14 (as stated): in every state a listener is in the table at most once
\* and every listener in the table has an open channel; the dispatcher has not
\* panicked.
C14_Original ==
    /\ \A id \in Ids :
          /\ \A t \in AllTopics : Count(topicListeners[t], id) <= 1
          /\ InTable(id) => ~closed[id]
    /\ dispatcher.pc # "panic"

\* C14 (amended): a listener is in the table at most once; every listener in
\* the table has an open channel, except the once-listeners the broadcast in
\* progress has already served, which are in the list until it leaves its
\* loop; every listener a broadcast has yet to send to has an open channel;
\* and the dispatcher has not panicked (no close of a closed channel, no send
\* on a closed channel).
C14_NoPanic ==
    /\ \A id \in Ids :
          /\ Cardinality({t \in AllTopics : id \in Range(topicListeners[t])}) <= 1
          /\ \A t \in AllTopics : Count(topicListeners[t], id) <= 1
          /\ InTable(id) /\ ~InBroadcast(id) => ~closed[id]
    /\ dispatcher.pc = "broadcast" =>
          \A j \in DOMAIN dispatcher.list :
              j >= dispatcher.i => ~closed[dispatcher.list[j]]
    /\ dispatcher.pc # "panic"

\* a once-listener was served and then passed to Unsubscribe twice, and the
\* dispatcher has served both requests
C14_Witness ==
    \E id \in Ids :
        /\ listeners[id].once
        /\ handed[id] # <<>>
        /\ Count(unsubscribed, id) = 2
        /\ requests = <<>>
        /\ dispatcher.pc = "idle"


\* ------------------------------------------------------------------ C15
\* The workers are scheduled fairly and every callback returns.
WorkerFairness ==
    \A id \in 1..MaxListeners :
        /\ WF_vars(id \in Ids /\ CallbackReturn(id))
        /\ WF_vars(id \in Ids /\ WorkerExit(id))

\* The callers of the liveness specifications register callbacks of one type.
LiveRegistrations == Topics \X {FuncOf(<<"string", "int">>, <<>>, FALSE)}

NextLive ==
    \/ Register(LiveRegistrations)
    \/ DoPost(Posts)
    \/ Bus

SpecWorkers == Init /\ [][NextLive]_vars /\ WorkerFairness

\* the listener is in the table before the step and out of it after
LeavesTable(id) == InTable(id) /\ ~InTable(id)'

\* the step is the worker of the listener seeing its channel closed
ExitStep(id) == worker[id].pc = "recv" /\ worker'[id].pc = "exited"

\* C15: a listener that leaves the table has its channel closed by the
\* dispatcher handling the same request (by removeListener in that step, or by
\* the broadcast that now stores its keepList); once its channel is closed the
\* worker is handed no further event and calls the callback no more, not when
\* it sees the close either; and it then exits, after a callback in progress
\* has returned.
C15_ClosedWorkerExits ==
    /\ [][\A id \in Ids :
            /\ LeavesTable(id) =>
                  /\ closed'[id]
                  /\ ~closed[id] \/ InBroadcast(id)
            /\ closed[id] =>
                  /\ closed'[id]
                  /\ handed'[id] = handed[id]
                  /\ calls'[id] = calls[id]
            /\ ExitStep(id) => closed[id] /\ calls'[id] = calls[id]
            /\ worker[id].pc = "exited" => worker'[id].pc = "exited"]_vars
    /\ \A id \in 1..MaxListeners :
          (id \in Ids /\ closed[id]) ~> (id \in Ids /\ worker[id].pc = "exited")

\* Two workers have exited: one of an unsubscribed listener, one of a
\* once-listener that made its call, and the bus is at rest.
C15_Witness ==
    \E a, b \in Ids :
        /\ ~listeners[a].once /\ a \in Range(unsubscribed)
        /\ worker[a].pc = "exited" /\ calls[a] # <<>>
        /\ listeners[b].once /\ Len(calls[b]) = 1 /\ b \notin Range(unsubscribed)
        /\ worker[b].pc = "exited"
        /\ requests = <<>> /\ dispatcher.pc = "idle"


\* ------------------------------------------------------------------ C16
\* The dispatcher goroutine is scheduled fairly.
DispatcherFairness ==
    /\ WF_vars(DispatchAdd)
    /\ WF_vars(DispatchRemove)
    /\ WF_vars(DispatchSend)
    /\ WF_vars(Handoff)
    /\ WF_vars(Reply)

\* Callbacks return and do not call the bus; dispatcher and workers are
\* scheduled fairly.
SpecFair ==
    Init /\ [][NextLive]_vars /\ WorkerFairness /\ DispatcherFairness

\* some call is waiting or some request is not yet served
Pending ==
    \/ \E c \in Callers : caller[c].pc = "wait"
    \/ requests # <<>>
    \/ dispatcher.pc # "idle"

\* a step of the dispatcher or the return of a callback
Serve ==
    \/ DispatchAdd
    \/ DispatchRemove
    \/ DispatchSend
    \/ Handoff
    \/ Reply
    \/ Return

\* C16: every Once, On and Post that waits for its reply gets it; the
\* dispatcher, having taken an add or a send request, gets back to its
\* receive, which it does only through the reply; and while anything is
\* pending, the dispatcher or a callback can take a step and the dispatcher
\* has not panicked.
C16_EveryCallReturns ==
    /\ \A c \in Callers : (caller[c].pc = "wait") ~> (caller[c].pc = "ready")
    /\ (dispatcher.pc \in {"broadcast", "reply"}) ~> (dispatcher.pc = "idle")
    /\ [](Pending => dispatcher.pc # "panic" /\ ENABLED Serve)
    /\ [][dispatcher.pc = "reply" /\ dispatcher'.pc = "idle" =>
            /\ caller[dispatcher.errors].pc = "wait"
            /\ caller'[dispatcher.errors].pc = "ready"]_vars

\* A Post has returned whose broadcast had two listeners, a listener has
\* been handed two events, and the other caller waits for its reply.
C16_Witness ==
    \E c, d \in Callers :
        /\ c # d
        /\ caller[c].pc = "ready" /\ caller[c].op = "post"
        /\ caller[c].err = NoError
        /\ Len(broadcasts[Pos(caller[c].arg)].list) = 2
        /\ \E id \in Ids : Len(handed[id]) = 2
        /\ caller[d].pc = "wait"


\* ------------------------------------------------------------------ C17
\* The dispatcher is in the broadcast of a Post to the topic of the
\* On-listener s and has yet to send to s, whose worker is in the callback
\* for an earlier event.
Stalled(s) ==
    /\ ~listeners[s].once
    /\ worker[s].pc = "call"
    /\ dispatcher.pc = "broadcast"
    /\ dispatcher.event.topic = listeners[s].topic
    /\ \E j \in DOMAIN dispatcher.list :
          j >= dispatcher.i /\ dispatcher.list[j] = s

\* the dispatcher is at the send to s
BlockedOn(s) == Stalled(s) /\ dispatcher.list[dispatcher.i] = s

\* C17: while the dispatcher's broadcast has yet to send to an On-listener
\* that is in its callback, every step other than the return of that callback
\* leaves the dispatcher in the same broadcast, takes no request off
\* b.requests, leaves the table alone and returns no waiting Once, On or Post;
\* and once the dispatcher is at the send to that listener it does not move at
\* all.
C17_SlowCallbackStalls ==
    [][\A s \in Ids :
          Stalled(s) /\ ~CallbackReturn(s) =>
              /\ Stalled(s)'
              /\ dispatcher'.event = dispatcher.event
              /\ \E k \in 0..Len(requests') :
                    requests = SubSeq(requests', 1, k)
              /\ topicListeners' = topicListeners
              /\ regOrder' = regOrder
              /\ broadcasts' = broadcasts
              /\ returned' = returned
              /\ \A c \in Callers :
                    caller[c].pc = "wait" => caller'[c] = caller[c]
              /\ BlockedOn(s) => dispatcher' = dispatcher]_vars

\* The dispatcher is at the send to an On-listener in its callback while a
\* registration or a Post on the other topic waits in the queue, its caller
\* waiting for the reply.
C17_Witness ==
    \E s \in Ids, c \in Callers :
        /\ BlockedOn(s)
        /\ requests # <<>>
        /\ Head(requests).errors = c
        /\ caller[c].pc = "wait"
        /\ Head(requests).request = "sendEventReq" =>
              Head(requests).event.topic # listeners[s].topic
        /\ Head(requests).request = "addListenerReq" =>
              listeners[Head(requests).listener].topic # listeners[s].topic

\* ------------------------------------------------------------------ C18
\* the last call of the caller was a Post of event e that returned nil
PostReturned(c, e) ==
    /\ caller[c].pc = "ready"
    /\ caller[c].op = "post"
    /\ caller[c].arg = e
    /\ caller[c].err = NoError

\* C18: when Post has returned nil, every listener that was in the list of
\* the topic when the dispatcher took the request has received the event from
\* its channel, and every once-listener among them is out of the table with
\* its channel closed.
C18_PostReturnsAfterHandoff ==
    \A c \in Callers :
        caller[c].pc = "ready" /\ caller[c].op = "post"
                /\ caller[c].err = NoError =>
            LET e == caller[c].arg
                list == broadcasts[Pos(e)].list
            IN  \A j \in DOMAIN list :
                    /\ Count(handed[list[j]], e) = 1
                    /\ listeners[list[j]].once =>
                          ~InTable(list[j]) /\ closed[list[j]]

\* Post has returned nil while the callback of a once-listener and the
\* callback of an On-listener are still running for its event.
C18_Witness ==
    \E c \in Callers, e \in DOMAIN events, a, b \in Ids :
        /\ PostReturned(c, e)
        /\ listeners[a].once /\ ~listeners[b].once
        /\ worker[a] = [pc |-> "call", evnt |-> e]
        /\ worker[b] = [pc |-> "call", evnt |-> e]


\* ------------------------------------------------------------------ C19
\* Nothing is queued, the dispatcher is at its receive, no callback runs and
\* no worker has a close of its channel left to see.
Quiescent ==
    /\ requests = <<>>
    /\ dispatcher.pc = "idle"
    /\ \A c \in Callers : caller[c].pc = "ready"
    /\ \A id \in Ids :
          /\ worker[id].pc # "call"
          /\ ~(worker[id].pc = "recv" /\ closed[id])

Alive == {id \in Ids : worker[id].pc # "exited"}

\* C19: in every quiescent state the workers alive are the workers of the
\* listeners in the table.
C19_NoWorkerOutlives ==
    Quiescent => Alive = {id \in Ids : InTable(id)}

\* In every quiescent state the workers alive are those of the listeners in
\* the table and those of the registrations the dispatcher rejected, whose
\* channel nothing closes.
WorkersOfRejectedStay ==
    Quiescent =>
        Alive = {id \in Ids : InTable(id)} \cup (Ids \ Range(regOrder))


\* ------------------------------------------------------------------ C20
\* Callbacks that may call Post on the topic of their listener.
CallbackData == {Data(<<V("string", "foo"), V("int", 12)>>)}

Reenter == \E id \in Ids, data \in CallbackData : CallbackPost(id, data)

NextReentrant ==
    \/ Register(LiveRegistrations)
    \/ DoPost(Topics \X CallbackData)
    \/ Bus
    \/ Reenter
    \/ ReplyWorker

SpecReentrant ==
    /\ Init
    /\ [][NextReentrant]_vars
    /\ WorkerFairness
    /\ DispatcherFairness
    /\ WF_vars(ReplyWorker)

\* the listener whose callback posted the event of broadcast i, or 0
Poster(i) == events[broadcasts[i].event].from

\* The dispatcher is in a broadcast that has yet to send to s, and the
\* callback of s waits in Post for a reply of the dispatcher.
Deadlocked(s) ==
    /\ worker[s].pc = "post"
    /\ dispatcher.pc = "broadcast"
    /\ \E j \in DOMAIN dispatcher.list :
          j >= dispatcher.i /\ dispatcher.list[j] = s

\* C20 (as stated): the Post made by the callback of an On-listener gets no
\* reply, the dispatcher being in its broadcast from the moment it takes the
\* request; and a once-listener is out of the table while its callback runs.
C20_Original ==
    /\ \A e \in DOMAIN events :
          LET s == events[e].from
          IN  s # 0 /\ ~listeners[s].once =>
                /\ worker[s].pc = "post"
                /\ (\E i \in DOMAIN broadcasts : broadcasts[i].event = e) =>
                      dispatcher.pc = "broadcast" /\ dispatcher.event.id = e
    /\ \A s \in Ids :
          listeners[s].once /\ worker[s].pc \in {"call", "post"} => ~InTable(s)

\* C20 (amended): when the dispatcher takes the Post made by the callback of a
\* listener that is in the list of the topic, it is in the broadcast of that
\* event with the callback waiting in Post; and whenever a broadcast has yet
\* to send to a listener whose callback waits in Post, the bus is deadlocked
\* for good: the dispatcher stays in that broadcast, the callback stays in
\* Post, no request leaves the queue and no waiting call returns.  An
\* On-listener is in the list when no Unsubscribe has been called.  A
\* once-listener is never in the list of the Post its callback made, and that
\* Post returns unless a listener waiting in Post has deadlocked the bus.
C20_ReentrantPost ==
    /\ [](\A i \in DOMAIN broadcasts :
            LET s == Poster(i)
            IN  s # 0 =>
                  /\ listeners[s].once => s \notin Range(broadcasts[i].list)
                  /\ s \in Range(broadcasts[i].list) =>
                        Deadlocked(s) /\ dispatcher.event.id = broadcasts[i].event
                  /\ ~listeners[s].once /\ unsubscribed = <<>> =>
                        s \in Range(broadcasts[i].list))
    /\ [][\A s \in Ids :
            Deadlocked(s) =>
                /\ Deadlocked(s)'
                /\ dispatcher'.event = dispatcher.event
                /\ \E k \in 0..Len(requests') : requests = SubSeq(requests', 1, k)
                /\ \A c \in Callers :
                      caller[c].pc = "wait" => caller'[c] = caller[c]]_vars
    /\ \A s \in 1..MaxListeners :
          (s \in Ids /\ listeners[s].once /\ worker[s].pc = "post")
              ~> (s \in Ids /\ \/ worker[s].pc # "post"
                               \/ \E b \in Ids : Deadlocked(b))

\* The dispatcher is at the send to an On-listener whose callback waits in
\* Post, with the request of a waiting caller behind it in the queue.
C20_Witness ==
    \E s \in Ids, c \in Callers :
        /\ Deadlocked(s) /\ ~listeners[s].once
        /\ dispatcher.list[dispatcher.i] = s
        /\ requests # <<>> /\ caller[c].pc = "wait"

\* The callback of a once-listener has posted, got its reply and returned,
\* and the worker has exited.
OncePosterReturned ==
    \E s \in Ids, i \in DOMAIN broadcasts :
        /\ listeners[s].once /\ Poster(i) = s
        /\ worker[s].pc = "exited"

====
